---- MODULE Spec2Model ----
(***************************************************************************)
(* Model of translation_converter: scripts/json_to_excel.py and            *)
(* scripts/excel_to_json.py.                                               *)
(*                                                                         *)
(* Python values are represented as follows.                               *)
(*   str    a sequence of one-character strings, <<"a", ".", "b">>         *)
(*   dict   a sequence of <<key, value>> pairs with distinct keys, in      *)
(*          insertion order (Python dicts are ordered; == ignores order)   *)
(*   a JSON value inside a document is tagged: [t |-> "str", s |-> s],     *)
(*          [t |-> "int", n |-> n], [t |-> "none"] or                      *)
(*          [t |-> "dict", d |-> pairs]; every record carries the three    *)
(*          fields s, n, d, the unused ones at <<>>, 0, <<>>               *)
(***************************************************************************)
EXTENDS Integers, Sequences, FiniteSets, TLC

\* ------------------------------------------------------------------ strings

Q == "\""

Sep == <<".">>

\* The characters the model uses, in code point order (Python compares str by
\* code point).
CodePoints ==
    << "\"", "-", ".", "0", "1", "2", "3", "4", "5", "6", "7", "8", "9",
       "A", "B", "C", "D", "E", "F", "G", "H", "I", "J", "K", "L", "M",
       "N", "O", "P", "Q", "R", "S", "T", "U", "V", "W", "X", "Y", "Z",
       "a", "b", "c", "d", "e", "f", "g", "h", "i", "j", "k", "l", "m",
       "n", "o", "p", "q", "r", "s", "t", "u", "v", "w", "x", "y", "z" >>

Ord(c) == CHOOSE i \in 1..Len(CodePoints) : CodePoints[i] = c

Lower == {CodePoints[i] : i \in 40..65}

Upper == {CodePoints[i] : i \in 14..39}

Digits == <<"0", "1", "2", "3", "4", "5", "6", "7", "8", "9">>

\* s < t for Python str
RECURSIVE StrLess(_, _)
StrLess(s, t) ==
    IF t = <<>> THEN FALSE
    ELSE IF s = <<>> THEN TRUE
    ELSE IF s[1] # t[1] THEN Ord(s[1]) < Ord(t[1])
    ELSE StrLess(Tail(s), Tail(t))

\* A sort in descending order.
RECURSIVE SortedDescending(_)
SortedDescending(S) ==
    IF S = {} THEN <<>>
    ELSE LET m == CHOOSE x \in S : \A y \in S \ {x} : StrLess(y, x)
         IN  <<m>> \o SortedDescending(S \ {m})

\* sorted(S) for a collection of distinct str
RECURSIVE Sorted(_)
Sorted(S) ==
    IF S = {} THEN <<>>
    ELSE LET m == CHOOSE x \in S : \A y \in S \ {x} : StrLess(x, y)
         IN  <<m>> \o Sorted(S \ {m})

Range(s) == {s[i] : i \in 1..Len(s)}

\* str(n) for a non-negative int
RECURSIVE Decimal(_)
Decimal(n) ==
    IF n < 10 THEN <<Digits[n + 1]>>
    ELSE Decimal(n \div 10) \o <<Digits[(n % 10) + 1]>>

\* str(v) of a JSON leaf, json_to_excel.py line 26
PyStr(v) ==
    CASE v.t = "str"  -> v.s
      [] v.t = "int"  -> Decimal(v.n)
      [] v.t = "none" -> <<"N", "o", "n", "e">>

RECURSIVE LStrip(_)
LStrip(s) == IF s # <<>> /\ s[1] = Q THEN LStrip(Tail(s)) ELSE s

RECURSIVE RStrip(_)
RStrip(s) ==
    IF s # <<>> /\ s[Len(s)] = Q THEN RStrip(SubSeq(s, 1, Len(s) - 1)) ELSE s

\* One enclosing pair removed, once: what a one-layer strip would do.
StripOnePair(s) ==
    IF Len(s) >= 2 /\ s[1] = Q /\ s[Len(s)] = Q
    THEN SubSeq(s, 2, Len(s) - 1) ELSE s

\* s.strip('"'): every leading and every trailing '"' is removed
Strip(s) == RStrip(LStrip(s))

\* key.split(sep) for the one-character separator
RECURSIVE SplitFrom(_, _, _)
SplitFrom(s, sep, acc) ==
    IF s = <<>> THEN <<acc>>
    ELSE IF <<s[1]>> = sep THEN <<acc>> \o SplitFrom(Tail(s), sep, <<>>)
    ELSE SplitFrom(Tail(s), sep, Append(acc, s[1]))

\* A split that never finds the separator.
SplitNever(s, sep) == <<s>>

Split(s, sep) == SplitFrom(s, sep, <<>>)

\* --------------------------------------------------------------------- dict

StrNode(s) == [t |-> "str", s |-> s, n |-> 0, d |-> <<>>]

IntNode(n) == [t |-> "int", s |-> <<>>, n |-> n, d |-> <<>>]

NoneNode == [t |-> "none", s |-> <<>>, n |-> 0, d |-> <<>>]

DictNode(d) == [t |-> "dict", s |-> <<>>, n |-> 0, d |-> d]

Keys(d) == {d[i][1] : i \in 1..Len(d)}

HasKey(d, k) == k \in Keys(d)

\* d[k]
Get(d, k) == d[CHOOSE i \in 1..Len(d) : d[i][1] = k][2]

\* d[k] = v: a present key keeps its position, a new key goes last
DictSet(d, k, v) ==
    IF HasKey(d, k)
    THEN [i \in 1..Len(d) |-> IF d[i][1] = k THEN <<k, v>> ELSE d[i]]
    ELSE Append(d, <<k, v>>)

\* dict(items)
RECURSIVE DictFromItems(_)
DictFromItems(items) ==
    IF items = <<>> THEN <<>>
    ELSE LET n == Len(items)
         IN  DictSet(DictFromItems(SubSeq(items, 1, n - 1)), items[n][1], items[n][2])

\* d1 == d2 for flat dicts of str (order is ignored)
FlatEq(d1, d2) ==
    /\ Keys(d1) = Keys(d2)
    /\ \A k \in Keys(d1) : Get(d1, k) = Get(d2, k)

\* d1 == d2 for documents
RECURSIVE DocEq(_, _)
DocEq(d1, d2) ==
    /\ Keys(d1) = Keys(d2)
    /\ \A k \in Keys(d1) :
          LET a == Get(d1, k)
              b == Get(d2, k)
          IN  /\ a.t = b.t
              /\ IF a.t = "dict" THEN DocEq(a.d, b.d) ELSE a = b

\* ------------------------------------------------- json_to_excel.flatten_dict

RECURSIVE flatten_dict(_, _)
RECURSIVE FlattenItems(_, _)
\* the loop of lines 21-27: the items list
FlattenItems(d, parent_key) ==
    IF d = <<>> THEN <<>>
    ELSE LET k == d[1][1]
             v == d[1][2]
             new_key == IF parent_key # <<>> THEN parent_key \o Sep \o k ELSE k
         IN  (IF v.t = "dict"
              THEN flatten_dict(v.d, new_key)
              ELSE << <<new_key, Strip(PyStr(v))>> >>)
             \o FlattenItems(Tail(d), parent_key)

flatten_dict(d, parent_key) == DictFromItems(FlattenItems(d, parent_key))

\* ----------------------------------------------- excel_to_json.unflatten_dict

Ok(d) == [err |-> FALSE, d |-> d]

TypeError == [err |-> TRUE, d |-> <<>>]

\* lines 23-28 for one key: walk/create the intermediate dicts, assign the
\* leaf.  A str met on the way (current = current[part] is a str) makes every
\* later subscript or item assignment raise TypeError.
RECURSIVE SetPath(_, _, _)
SetPath(current, parts, value) ==
    IF Len(parts) = 1 THEN Ok(DictSet(current, parts[1], StrNode(value)))
    ELSE LET part  == parts[1]
             child == IF HasKey(current, part) THEN Get(current, part)
                      ELSE DictNode(<<>>)
         IN  IF child.t # "dict" THEN TypeError
             ELSE LET sub == SetPath(child.d, Tail(parts), value)
                  IN  IF sub.err THEN TypeError
                      ELSE Ok(DictSet(current, part, DictNode(sub.d)))

RECURSIVE UnflattenFrom(_, _)
UnflattenFrom(flat_dict, nested_dict) ==
    IF flat_dict = <<>> THEN Ok(nested_dict)
    ELSE LET key   == flat_dict[1][1]
             value == flat_dict[1][2]
         IN  IF value = <<>> THEN UnflattenFrom(Tail(flat_dict), nested_dict)
             ELSE LET r == SetPath(nested_dict, Split(key, Sep), value)
                  IN  IF r.err THEN TypeError
                      ELSE UnflattenFrom(Tail(flat_dict), r.d)

unflatten_dict(flat_dict) == UnflattenFrom(flat_dict, <<>>)

\* A get that never finds the key.
DictGetMissing(d, k, default) == default

\* d.get(k, default)
DictGet(d, k, default) == IF HasKey(d, k) THEN Get(d, k) ELSE default

\* ------------------------------------------------- json_to_excel.create_excel

\* A DataFrame is a record of the row labels (index), the column labels
\* (columns) and the cell at each <<row label, column label>> (values).

\* lines 73-76
AllKeys(translations) ==
    UNION {Keys(translations[i][2]) : i \in 1..Len(translations)}

\* lines 79-82: df_data, one row dict per sorted key
DfData(translations) ==
    LET rows == Sorted(AllKeys(translations))
    IN  [r \in 1..Len(rows) |->
            <<rows[r],
              [i \in 1..Len(translations) |->
                  <<translations[i][1],
                    DictGet(translations[i][2], rows[r], <<>>)>>]>>]

\* line 85, pd.DataFrame.from_dict(df_data, orient='index'): the rows are the
\* outer keys, the columns are the keys of the row dicts (here every row dict
\* has the same keys in the same order), so no row means no column.
DataFrameFromDict(df_data) ==
    LET index   == [r \in 1..Len(df_data) |-> df_data[r][1]]
        columns == IF df_data = <<>> THEN <<>>
                   ELSE [j \in 1..Len(df_data[1][2]) |-> df_data[1][2][j][1]]
    IN  [ index   |-> index,
          columns |-> columns,
          values  |-> [p \in Range(index) \X Range(columns) |->
                          Get(Get(df_data, p[1]), p[2])] ]

\* lines 88-93
SortColumns(cols, priority_lang) ==
    IF priority_lang \in Range(cols)
    THEN <<priority_lang>> \o Sorted(Range(cols) \ {priority_lang})
    ELSE Sorted(Range(cols))

\* lines 73-94: the frame that line 98 hands to to_excel
create_excel(translations, priority_lang) ==
    LET df   == DataFrameFromDict(DfData(translations))
        cols == SortColumns(df.columns, priority_lang)
    IN  [df EXCEPT !.columns = cols]

\* ------------------------------ excel_to_json.read_excel_to_translations

\* line 46, pd.read_excel(excel_file, index_col='Key') on a sheet written by
\* to_excel or by hand: a blank cell, and a cell holding the empty string,
\* come back as NaN; a text cell comes back as its text.
PdReadExcel(sheet) ==
    [ index   |-> sheet.index,
      columns |-> sheet.columns,
      values  |-> [p \in DOMAIN sheet.values |->
                     [na |-> sheet.values[p] = <<>>, s |-> sheet.values[p]]] ]

\* The comprehension of line 54 without its pd.notna filter.
ColumnDictUnfiltered(df, lang_code) ==
    [r \in 1..Len(df.index) |-> <<df.index[r], df.values[<<df.index[r], lang_code>>].s>>]

\* line 54: {key: str(value) for key, value in df[lang_code].items()
\*           if pd.notna(value)}
ColumnDict(df, lang_code) ==
    LET NotNa(key) == ~df.values[<<key, lang_code>>].na
        keys == SelectSeq(df.index, NotNa)
    IN  [r \in 1..Len(keys) |-> <<keys[r], df.values[<<keys[r], lang_code>>].s>>]

\* lines 50-57
read_excel_to_translations(sheet) ==
    LET df == PdReadExcel(sheet)
    IN  [j \in 1..Len(df.columns) |-> <<df.columns[j], ColumnDict(df, df.columns[j])>>]

\* -------------------------------------------------------- language codes

enUS == <<"e", "n", "-", "U", "S">>

deDE == <<"d", "e", "-", "D", "E">>

frFR == <<"f", "r", "-", "F", "R">>

\* ------------------------------------------------------------ the inputs

\* Segment names of the documents: plain ones, one holding the separator and
\* the empty one.
Segs == {<<"a">>, <<"b">>, <<"a", ".", "b">>, <<>>}

\* Leaves of a single document.
Leaves ==
    { StrNode(<<>>), StrNode(<<"x">>), StrNode(<<Q, "x", Q>>),
      StrNode(<<Q, Q, "x", Q, Q>>), StrNode(<<Q, Q>>), IntNode(10) }

\* Segment names and leaves of the per-language documents that go through
\* the table.
TableSegs == {<<"a">>, <<"b">>, <<"a", ".", "b">>}

TableLeaves == {StrNode(<<"x">>), StrNode(<<Q, Q>>)}

Langs == {enUS, deDE, frFR}

PriorityLangs == {enUS, frFR}

\* The largest document of the flatten/unflatten runs, in entries (every key
\* of every mapping counts one).
MaxDocSize == 2

\* The largest input of the table runs: its languages plus all their entries.
MaxInputSize == 4

RECURSIVE NodeCost(_)
RECURSIVE DictCost(_)
DictCost(d) == IF d = <<>> THEN 0 ELSE 1 + NodeCost(d[1][2]) + DictCost(Tail(d))

NodeCost(v) == IF v.t = "dict" THEN DictCost(v.d) ELSE 0

\* The dicts of at most m entries in all whose last value holds exactly c
\* entries, given levels[j + 1], the dicts of at most j entries for every
\* j < m, and V[c + 1], the values that hold exactly c entries: a smaller dict
\* extended by one more key, in every order.
ExtendWith(levels, ks, V, m, c) ==
    IF c = m THEN {<<>>}
    ELSE { Append(x[1], <<x[2], x[3]>>) :
             x \in {x \in levels[m - c] \X ks \X V[c + 1] : x[2] \notin Keys(x[1])} }

\* The dicts of at most m entries in all.
RECURSIVE ExtendFrom(_, _, _, _, _)
ExtendFrom(levels, ks, V, m, c) ==
    IF c = m THEN ExtendWith(levels, ks, V, m, c)
    ELSE ExtendWith(levels, ks, V, m, c) \cup ExtendFrom(levels, ks, V, m, c + 1)

\* The values of a document by the entries they hold: the leaves and the
\* empty mapping hold none.
DocValues(levels, leaves) ==
    [c \in 1..Len(levels) |->
        IF c = 1 THEN leaves \cup {DictNode(<<>>)}
        ELSE {DictNode(d) : d \in levels[c] \ levels[c - 1]}]

\* <<the documents of at most 0 entries, ..., of at most n entries>>
RECURSIVE DocLevels(_, _, _)
DocLevels(segs, leaves, n) ==
    IF n = 0 THEN << {<<>>} >>
    ELSE CHOOSE next \in { Append(prev, ExtendFrom(prev, segs, DocValues(prev, leaves), n, 0)) :
                            prev \in {DocLevels(segs, leaves, n - 1)} } : TRUE

\* The documents of fewer than MaxDocSize entries, by level.
SmallerDocs == DocLevels(Segs, Leaves, MaxDocSize - 1)

SmallerDocValues == DocValues(SmallerDocs, Leaves)

\* The per-language documents by the entries they hold.
TableDocLevels == DocLevels(TableSegs, TableLeaves, MaxInputSize - 1)

TableDocs ==
    [c \in 1..MaxInputSize |->
        IF c = 1 THEN TableDocLevels[1] ELSE TableDocLevels[c] \ TableDocLevels[c - 1]]

\* <<the ordered mappings of languages to documents of size 0, ..., n>>
RECURSIVE InputLevels(_)
InputLevels(n) ==
    IF n = 0 THEN << {<<>>} >>
    ELSE CHOOSE next \in { Append(prev, ExtendFrom(prev, Langs, TableDocs, n, 0)) :
                            prev \in {InputLevels(n - 1)} } : TRUE

\* The inputs of size less than MaxInputSize, by level.
SmallerInputs == InputLevels(MaxInputSize - 1)

\* ---------------------------------------------------------------- state

VARIABLES
    script,          \* which run this is
    pc,              \* the position in it
    doc,             \* the document given to flatten_dict
    flat,            \* flatten_dict(doc)
    nested,          \* unflatten_dict(flat)
    docs,            \* language -> document, in order
    priority_lang,   \* create_excel's priority_lang
    translations,    \* language -> flattened dict, in order
    xlsx,            \* the spreadsheet
    extracted,       \* read_excel_to_translations(xlsx)
    rebuilt,         \* language -> unflatten_dict(extracted[language])
    reflat,          \* language -> flatten_dict(rebuilt[language])
    input_dir,       \* json_to_excel: the input directory and its files
    valid_langs,     \* load_json_files' valid_langs
    excel_file,      \* excel_to_json: "missing", "unreadable" or "ok"
    idx,             \* the position of the loop over files or languages
    stdout,          \* what the run has printed
    xlsx_written,    \* json_to_excel: to_excel has written the output file
    json_out,        \* excel_to_json: language -> the document written
    exc              \* the exception that ended the run, or "none"

fnVars == <<doc, flat, docs, extracted, rebuilt, reflat>>

ioVars == <<input_dir, valid_langs, excel_file, idx, stdout, xlsx_written, json_out, exc>>

vars == <<script, pc, doc, flat, nested, docs, priority_lang, translations,
          xlsx, extracted, rebuilt, reflat, input_dir, valid_langs,
          excel_file, idx, stdout, xlsx_written, json_out, exc>>

NoDir == [exists |-> FALSE, files |-> <<>>]

NoAllowList == [given |-> FALSE, langs |-> {}]

\* The variables of the scripts' runs, at rest.
IoIdle ==
    /\ input_dir = NoDir
    /\ valid_langs = NoAllowList
    /\ excel_file = "missing"
    /\ idx = 1
    /\ stdout = <<>>
    /\ xlsx_written = FALSE
    /\ json_out = <<>>
    /\ exc = "none"

NoSheet == [index |-> <<>>, columns |-> <<>>, values |-> <<>>]

\* ------------------------------------------- flatten_dict / unflatten_dict

InitFlat ==
    /\ script = "flat"
    /\ pc = "start"
    /\ \E c \in 0..MaxDocSize :
          doc \in ExtendWith(SmallerDocs, Segs, SmallerDocValues, MaxDocSize, c)
    /\ flat = <<>>
    /\ nested = Ok(<<>>)
    /\ docs = <<>>
    /\ priority_lang = enUS
    /\ translations = <<>>
    /\ xlsx = NoSheet
    /\ extracted = <<>>
    /\ rebuilt = <<>>
    /\ reflat = <<>>
    /\ IoIdle

Flatten ==
    /\ script = "flat"
    /\ pc = "start"
    /\ flat' = flatten_dict(doc, <<>>)
    /\ pc' = "flattened"
    /\ UNCHANGED <<script, doc, nested, docs, priority_lang, translations,
                   xlsx, extracted, rebuilt, reflat,
                   ioVars>>

Unflatten ==
    /\ script = "flat"
    /\ pc = "flattened"
    /\ nested' = unflatten_dict(flat)
    /\ pc' = "done"
    /\ UNCHANGED <<script, doc, flat, docs, priority_lang, translations,
                   xlsx, extracted, rebuilt, reflat,
                   ioVars>>

NextFlat == Flatten \/ Unflatten

SpecFlat == InitFlat /\ [][NextFlat]_vars

\* ------------------------------------------------- documents -> table -> documents

InitTable ==
    /\ script = "table"
    /\ pc = "start"
    /\ doc = <<>>
    /\ flat = <<>>
    /\ nested = Ok(<<>>)
    /\ \E c \in 0..MaxInputSize :
          docs \in ExtendWith(SmallerInputs, Langs, TableDocs, MaxInputSize, c)
    /\ priority_lang \in PriorityLangs
    /\ translations = <<>>
    /\ xlsx = NoSheet
    /\ extracted = <<>>
    /\ rebuilt = <<>>
    /\ reflat = <<>>
    /\ IoIdle

\* load_json_files lines 54 and 57 for every language
FlattenAll ==
    /\ script = "table"
    /\ pc = "start"
    /\ translations' = [i \in 1..Len(docs) |-> <<docs[i][1], flatten_dict(docs[i][2], <<>>)>>]
    /\ pc' = "flattened"
    /\ UNCHANGED <<script, doc, flat, nested, docs, priority_lang, xlsx,
                   extracted, rebuilt, reflat,
                   ioVars>>

CreateExcel ==
    /\ script = "table"
    /\ pc = "flattened"
    /\ xlsx' = create_excel(translations, priority_lang)
    /\ pc' = "written"
    /\ UNCHANGED <<script, doc, flat, nested, docs, priority_lang,
                   translations, extracted, rebuilt, reflat,
                   ioVars>>

ReadExcel ==
    /\ script = "table"
    /\ pc = "written"
    /\ extracted' = read_excel_to_translations(xlsx)
    /\ pc' = "read"
    /\ UNCHANGED <<script, doc, flat, nested, docs, priority_lang,
                   translations, xlsx, rebuilt, reflat,
                   ioVars>>

\* save_translations_to_json lines 76-77 for every language
UnflattenAll ==
    /\ script = "table"
    /\ pc = "read"
    /\ rebuilt' = [j \in 1..Len(extracted) |-> <<extracted[j][1], unflatten_dict(extracted[j][2])>>]
    /\ pc' = "rebuilt"
    /\ UNCHANGED <<script, doc, flat, nested, docs, priority_lang,
                   translations, xlsx, extracted, reflat,
                   ioVars>>

\* flatten_dict again, of every document unflatten_dict returned
FlattenAgain ==
    /\ script = "table"
    /\ pc = "rebuilt"
    /\ \A j \in 1..Len(rebuilt) : ~rebuilt[j][2].err
    /\ reflat' = [j \in 1..Len(rebuilt) |-> <<rebuilt[j][1], flatten_dict(rebuilt[j][2].d, <<>>)>>]
    /\ pc' = "done"
    /\ UNCHANGED <<script, doc, flat, nested, docs, priority_lang,
                   translations, xlsx, extracted, rebuilt,
                   ioVars>>

NextTable == FlattenAll \/ CreateExcel \/ ReadExcel \/ UnflattenAll \/ FlattenAgain

SpecTable == InitTable /\ [][NextTable]_vars

\* ------------------------------------------------------- json_to_excel.py

DotJson == <<".", "j", "s", "o", "n">>

\* [a-z]{2}-[A-Z]{2} at the start of s
LangPrefix(s) ==
    /\ Len(s) >= 5
    /\ s[1] \in Lower /\ s[2] \in Lower /\ s[3] = "-" /\ s[4] \in Upper /\ s[5] \in Upper

\* A pattern that every name matches.
MatchesAnything(s) == TRUE

\* lang_pattern.match(file), line 46: '$' is the end of the string or the
\* place before a final newline
MatchesLangFile(s) ==
    /\ LangPrefix(s)
    /\ Len(s) = 10 \/ (Len(s) = 11 /\ s[11] = "\n")
    /\ SubSeq(s, 6, 10) = DotJson

\* re.match(r'^[a-z]{2}-[A-Z]{2}$', lang_code), excel_to_json.py line 71
MatchesLangCode(s) ==
    /\ LangPrefix(s)
    /\ Len(s) = 5 \/ (Len(s) = 6 /\ s[6] = "\n")

\* s.endswith(suffix)
EndsWith(s, suffix) ==
    /\ Len(s) >= Len(suffix)
    /\ SubSeq(s, Len(s) - Len(suffix) + 1, Len(s)) = suffix

\* s.replace(old, ''): every occurrence of old is removed, left to right
RECURSIVE RemoveAll(_, _)
RemoveAll(s, old) ==
    IF s = <<>> THEN <<>>
    ELSE IF Len(s) >= Len(old) /\ SubSeq(s, 1, Len(old)) = old
         THEN RemoveAll(SubSeq(s, Len(old) + 1, Len(s)), old)
         ELSE <<s[1]>> \o RemoveAll(Tail(s), old)

Say(msg, arg) == [msg |-> msg, arg |-> arg]

\* lines 48-61 for one directory entry: <<translations, what is printed>>
LoadOne(file, allow, loaded) ==
    IF EndsWith(file.name, DotJson) /\ MatchesLangFile(file.name)
    THEN LET lang_code == RemoveAll(file.name, DotJson)
         IN  IF ~allow.given \/ lang_code \in allow.langs
             THEN CASE file.err = "UnicodeDecodeError" ->
                         <<loaded, <<Say("Encoding error", file.name)>>>>
                    [] file.err = "JSONDecodeError" ->
                         <<loaded, <<Say("Error loading", file.name)>>>>
                    [] OTHER ->
                         LET flattened == flatten_dict(file.data, <<>>)
                         IN  <<DictSet(loaded, lang_code, flattened),
                               IF flattened = <<>>
                               THEN <<Say("Warning: empty or no valid translations", file.name)>>
                               ELSE <<>> >>
             ELSE <<loaded, <<>>>>
    ELSE <<loaded, <<>>>>

\* The names of the directory entries.
FileNames ==
    { enUS \o DotJson, frFR \o DotJson,
      <<"e", "n", "g", "l", "i", "s", "h">> \o DotJson,
      <<"e", "n", "-", "u", "s">> \o DotJson }

\* What a file holds: a document, or bytes that do not decode or do not parse.
FileContents ==
    { [err |-> "none", data |-> <<>>],
      [err |-> "none", data |-> << <<<<"a">>, StrNode(<<"x">>)>> >>],
      [err |-> "JSONDecodeError", data |-> <<>>],
      [err |-> "UnicodeDecodeError", data |-> <<>>] }

AllowLists == {NoAllowList, [given |-> TRUE, langs |-> {enUS}]}

\* The most entries of the input directory.
MaxFiles == 2

\* The sequences of at most n distinct members of S.
RECURSIVE DistinctSeqs(_, _)
DistinctSeqs(S, n) ==
    IF n = 0 THEN {<<>>}
    ELSE LET shorter == DistinctSeqs(S, n - 1)
         IN  shorter \cup
             UNION { {Append(q, x) : x \in S \ Range(q)} : q \in {q \in shorter : Len(q) = n - 1} }

InitJ2E ==
    /\ script = "json_to_excel"
    /\ pc = "loading"
    /\ doc = <<>> /\ flat = <<>> /\ nested = Ok(<<>>)
    /\ docs = <<>> /\ extracted = <<>> /\ rebuilt = <<>> /\ reflat = <<>>
    /\ priority_lang = enUS
    /\ translations = <<>>
    /\ xlsx = NoSheet
    /\ \/ input_dir = NoDir
       \/ \E names \in DistinctSeqs(FileNames, MaxFiles) :
          \E contents \in [1..Len(names) -> FileContents] :
             input_dir = [ exists |-> TRUE,
                           files  |-> [j \in 1..Len(names) |->
                                          [ name |-> names[j],
                                            err  |-> contents[j].err,
                                            data |-> contents[j].data ]] ]
    /\ valid_langs \in AllowLists
    /\ excel_file = "missing"
    /\ idx = 1
    /\ stdout = <<>>
    /\ xlsx_written = FALSE
    /\ json_out = <<>>
    /\ exc = "none"

\* load_json_files lines 41-43, then main lines 117-119
LoadNoDirectory ==
    /\ script = "json_to_excel"
    /\ pc = "loading"
    /\ ~input_dir.exists
    /\ stdout' = << Say("Directory does not exist", <<>>),
                    Say("No translation files found", <<>>) >>
    /\ pc' = "done"
    /\ UNCHANGED <<script, nested, priority_lang, translations, xlsx, fnVars,
                   input_dir, valid_langs, excel_file, idx, xlsx_written,
                   json_out, exc>>

\* load_json_files lines 47-61, one directory entry
LoadFile ==
    /\ script = "json_to_excel"
    /\ pc = "loading"
    /\ input_dir.exists
    /\ idx <= Len(input_dir.files)
    /\ LET r == LoadOne(input_dir.files[idx], valid_langs, translations)
       IN  /\ translations' = r[1]
           /\ stdout' = stdout \o r[2]
    /\ idx' = idx + 1
    /\ UNCHANGED <<script, pc, nested, priority_lang, xlsx, fnVars, input_dir,
                   valid_langs, excel_file, xlsx_written, json_out, exc>>

\* main lines 117-119
MainNoTranslations ==
    /\ script = "json_to_excel"
    /\ pc = "loading"
    /\ input_dir.exists
    /\ idx > Len(input_dir.files)
    /\ translations = <<>>
    /\ stdout' = Append(stdout, Say("No translation files found", <<>>))
    /\ pc' = "done"
    /\ UNCHANGED <<script, nested, priority_lang, translations, xlsx, fnVars,
                   input_dir, valid_langs, excel_file, idx, xlsx_written,
                   json_out, exc>>

\* main line 122: create_excel with the default priority_lang, lines 64-103
MainCreateExcel ==
    /\ script = "json_to_excel"
    /\ pc = "loading"
    /\ input_dir.exists
    /\ idx > Len(input_dir.files)
    /\ translations # <<>>
    /\ \E outcome \in {"ok", "PermissionError", "Exception"} :
          IF outcome = "ok"
          THEN /\ xlsx' = create_excel(translations, priority_lang)
               /\ xlsx_written' = TRUE
               /\ stdout' = Append(stdout, Say("Excel file created", <<>>))
          ELSE /\ UNCHANGED <<xlsx, xlsx_written>>
               /\ stdout' = Append(stdout,
                      Say(IF outcome = "PermissionError" THEN "Permission denied"
                          ELSE "Failed to create Excel file", <<>>))
    /\ pc' = "done"
    /\ UNCHANGED <<script, nested, priority_lang, translations, fnVars,
                   input_dir, valid_langs, excel_file, idx, json_out, exc>>

NextJ2E == LoadNoDirectory \/ LoadFile \/ MainNoTranslations \/ MainCreateExcel

SpecJ2E == InitJ2E /\ [][NextJ2E]_vars

\* ------------------------------------------------------- excel_to_json.py

\* The column headers, the row keys and the cell texts of the input sheet.
Headers == {enUS, frFR, <<"e", "n", "g", "l", "i", "s", "h">>, enUS \o <<"\n">>}

SheetKeys == {<<"a">>, <<"a", ".", "b">>, <<"b">>}

CellTexts == {<<>>, <<"x">>}

\* The most rows and the most language columns of the input sheet.
MaxRows == 2

MaxColumns == 2

InitE2J ==
    /\ script = "excel_to_json"
    /\ pc = "reading"
    /\ doc = <<>> /\ flat = <<>> /\ nested = Ok(<<>>)
    /\ docs = <<>> /\ extracted = <<>> /\ rebuilt = <<>> /\ reflat = <<>>
    /\ priority_lang = enUS
    /\ translations = <<>>
    /\ \/ excel_file \in {"missing", "unreadable"} /\ xlsx = NoSheet
       \/ /\ excel_file = "ok"
          /\ \E index \in DistinctSeqs(SheetKeys, MaxRows) :
             \E columns \in DistinctSeqs(Headers, MaxColumns) :
             \E values \in [Range(index) \X Range(columns) -> CellTexts] :
                xlsx = [index |-> index, columns |-> columns, values |-> values]
    /\ input_dir = NoDir
    /\ valid_langs = NoAllowList
    /\ idx = 1
    /\ stdout = <<>>
    /\ xlsx_written = FALSE
    /\ json_out = <<>>
    /\ exc = "none"

\* read_excel_to_translations lines 41-48 raise, main lines 100-102
ReadFails ==
    /\ script = "excel_to_json"
    /\ pc = "reading"
    /\ excel_file # "ok"
    /\ stdout' = Append(stdout, Say("Error", <<>>))
    /\ pc' = "done"
    /\ UNCHANGED <<script, nested, priority_lang, translations, xlsx, fnVars,
                   input_dir, valid_langs, excel_file, idx, xlsx_written,
                   json_out, exc>>

\* main lines 99 and 104-106: no column, so no translations
ReadNothing ==
    /\ script = "excel_to_json"
    /\ pc = "reading"
    /\ excel_file = "ok"
    /\ read_excel_to_translations(xlsx) = <<>>
    /\ stdout' = Append(stdout, Say("No translations found in Excel file", <<>>))
    /\ pc' = "done"
    /\ UNCHANGED <<script, nested, priority_lang, translations, xlsx, fnVars,
                   input_dir, valid_langs, excel_file, idx, xlsx_written,
                   json_out, exc>>

\* main lines 99 and 109, save_translations_to_json line 67
ReadTranslations ==
    /\ script = "excel_to_json"
    /\ pc = "reading"
    /\ excel_file = "ok"
    /\ read_excel_to_translations(xlsx) # <<>>
    /\ translations' = read_excel_to_translations(xlsx)
    /\ idx' = 1
    /\ pc' = "saving"
    /\ UNCHANGED <<script, nested, priority_lang, xlsx, fnVars, input_dir,
                   valid_langs, excel_file, stdout, xlsx_written, json_out, exc>>

\* save_translations_to_json lines 69-86, one language.  unflatten_dict is
\* called outside the try: its TypeError ends the run.
SaveLanguage ==
    /\ script = "excel_to_json"
    /\ pc = "saving"
    /\ idx <= Len(translations)
    /\ LET lang_code   == translations[idx][1]
           flat_dict   == translations[idx][2]
           nested_dict == unflatten_dict(flat_dict)
       IN  IF ~MatchesLangCode(lang_code)
           THEN /\ stdout' = Append(stdout, Say("Skipping invalid language code", lang_code))
                /\ idx' = idx + 1
                /\ UNCHANGED <<pc, nested, json_out, exc>>
           ELSE IF nested_dict.err
           THEN /\ nested' = nested_dict
                /\ exc' = "TypeError"
                /\ pc' = "crashed"
                /\ UNCHANGED <<idx, stdout, json_out>>
           ELSE /\ nested' = nested_dict
                /\ idx' = idx + 1
                /\ \E written \in BOOLEAN :
                      IF written
                      THEN /\ json_out' = DictSet(json_out, lang_code, nested_dict.d)
                           /\ stdout' = Append(stdout, Say("Generated JSON file", lang_code))
                      ELSE /\ json_out' = json_out
                           /\ stdout' = Append(stdout, Say("Failed to write", lang_code))
                /\ UNCHANGED <<pc, exc>>
    /\ UNCHANGED <<script, priority_lang, translations, xlsx, fnVars,
                   input_dir, valid_langs, excel_file, xlsx_written>>

\* the loop of line 69 is over
SaveDone ==
    /\ script = "excel_to_json"
    /\ pc = "saving"
    /\ idx > Len(translations)
    /\ pc' = "done"
    /\ UNCHANGED <<script, nested, priority_lang, translations, xlsx, fnVars,
                   ioVars>>

NextE2J == ReadFails \/ ReadNothing \/ ReadTranslations \/ SaveLanguage \/ SaveDone

SpecE2J == InitE2J /\ [][NextE2J]_vars

\* ------------------------------------------------------------ both scripts

Init == InitJ2E \/ InitE2J

Next == NextJ2E \/ NextE2J

Spec == Init /\ [][Next]_vars

\* ================================================================ claims

IsPrefix(p, q) == Len(p) < Len(q) /\ SubSeq(q, 1, Len(p)) = p

\* No key's segments are a proper prefix of another key's segments.
NoPrefixKeys(f) ==
    \A k1 \in Keys(f) : \A k2 \in Keys(f) : ~IsPrefix(Split(k1, Sep), Split(k2, Sep))

RECURSIVE StrLeavesOnly(_)
StrLeavesOnly(d) ==
    \A i \in 1..Len(d) :
        IF d[i][2].t = "dict" THEN StrLeavesOnly(d[i][2].d) ELSE d[i][2].t = "str"

\* A leaf that is a str, not empty, with no '"' at either end.
PlainLeaf(v) == v.t = "str" /\ v.s # <<>> /\ v.s[1] # Q /\ v.s[Len(v.s)] # Q

\* A segment name that is not empty and holds no separator.
PlainSeg(k) == k # <<>> /\ Sep[1] \notin Range(k)

\* Every segment name is plain, every leaf is plain, no mapping is empty.
RECURSIVE PlainDoc(_)
PlainDoc(d) ==
    \A i \in 1..Len(d) :
        /\ PlainSeg(d[i][1])
        /\ IF d[i][2].t = "dict"
           THEN d[i][2].d # <<>> /\ PlainDoc(d[i][2].d)
           ELSE PlainLeaf(d[i][2])

\* C1 as stated: for every document whose leaves are all strings and whose
\* flattened keys are not prefixes of one another,
\* unflatten_dict(flatten_dict(doc)) == doc.
C1_RoundTripOfStrings ==
    (script = "flat" /\ pc = "done" /\ StrLeavesOnly(doc) /\ NoPrefixKeys(flat))
        => (~nested.err /\ DocEq(nested.d, doc))

\* C1 amended: for every document whose segment names are non-empty and hold
\* no separator, whose mappings are non-empty and whose leaves are non-empty
\* strings that neither start nor end with a double quote (and whose
\* flattened keys are not prefixes of one another),
\* unflatten_dict(flatten_dict(doc)) == doc.
C1_RoundTripOfPlainDocs ==
    (script = "flat" /\ pc = "done" /\ PlainDoc(doc) /\ NoPrefixKeys(flat))
        => (~nested.err /\ DocEq(nested.d, doc))

\* A plain document with a nested mapping has been flattened and rebuilt.
C1_Witness ==
    /\ script = "flat" /\ pc = "done"
    /\ PlainDoc(doc) /\ NoPrefixKeys(flat)
    /\ \E i \in 1..Len(doc) : doc[i][2].t = "dict"
    /\ \E k \in Keys(flat) : Len(Split(k, Sep)) = 2
    /\ DocEq(nested.d, doc)

\* The documents whose entries are all leaves: entry i flattens to key
\* doc[i][1].
LeavesOnly(d) == \A i \in 1..Len(d) : d[i][2].t # "dict"

AllQuotes(s) == \A i \in 1..Len(s) : s[i] = Q

\* r is s without a run of '"' at its start and a run of '"' at its end, and r
\* itself has no '"' at either end.
StrippedOfAllQuotes(s, r) ==
    /\ r = <<>> \/ (r[1] # Q /\ r[Len(r)] # Q)
    /\ \E a \in 0..Len(s) : \E b \in 0..(Len(s) - a) :
          /\ SubSeq(s, a + 1, Len(s) - b) = r
          /\ AllQuotes(SubSeq(s, 1, a))
          /\ AllQuotes(SubSeq(s, Len(s) - b + 1, Len(s)))

\* C6 as stated: flatten_dict maps every leaf to its string form with one
\* pair of enclosing double quotes stripped, one layer only: a leaf wrapped in
\* two pairs keeps exactly one pair.
C6_StripsOnePair ==
    (script = "flat" /\ pc # "start" /\ LeavesOnly(doc))
        => \A i \in 1..Len(doc) :
              Get(flat, doc[i][1]) = StripOnePair(PyStr(doc[i][2]))

\* C6 amended: flatten_dict maps every leaf to its string form with every
\* leading and every trailing double quote stripped; the strip is repeated
\* until neither end is a double quote, so a leaf wrapped in two pairs of
\* quotes keeps none.
C6_StripsEveryQuote ==
    (script = "flat" /\ pc # "start" /\ LeavesOnly(doc))
        => \A i \in 1..Len(doc) :
              /\ HasKey(flat, doc[i][1])
              /\ StrippedOfAllQuotes(PyStr(doc[i][2]), Get(flat, doc[i][1]))

\* A leaf wrapped in two pairs of quotes has been flattened.
C6_Witness ==
    /\ script = "flat" /\ pc = "flattened" /\ LeavesOnly(doc)
    /\ \E i \in 1..Len(doc) :
          /\ doc[i][2] = StrNode(<<Q, Q, "x", Q, Q>>)
          /\ Get(flat, doc[i][1]) = <<"x">>

\* ---------------------------------------------------------------- table

After(positions) == script = "table" /\ pc \in positions

InputLangs == Keys(docs)

\* The union of the languages' flattened keys.
UnionOfKeys == UNION {Keys(translations[i][2]) : i \in 1..Len(translations)}

CellAt(key, lang) == xlsx.values[<<key, lang>>]

\* C3: the table's rows are exactly the union of all languages' keys, each
\* once, in ascending order, and the cell at (key, language) is the
\* language's value for the key when it has the key and '' otherwise.
C3_RowsAndCells ==
    After({"written", "read", "rebuilt", "done"})
        => /\ Range(xlsx.index) = UnionOfKeys
           /\ \A i \in 1..Len(xlsx.index) : \A j \in 1..Len(xlsx.index) :
                 i < j => StrLess(xlsx.index[i], xlsx.index[j])
           /\ \A key \in UnionOfKeys : \A i \in 1..Len(translations) :
                 LET lang == translations[i][1]
                     d    == translations[i][2]
                 IN  /\ <<key, lang>> \in DOMAIN xlsx.values
                     /\ CellAt(key, lang) = IF HasKey(d, key) THEN Get(d, key) ELSE <<>>

\* A table of two rows given out of order and two columns, with a filled and
\* an empty cell.
C3_Witness ==
    /\ After({"written"})
    /\ Len(xlsx.index) = 2 /\ Len(xlsx.columns) = 2
    /\ \E i \in 1..Len(translations) :
          /\ Len(translations[i][2]) = 2
          /\ StrLess(translations[i][2][2][1], translations[i][2][1][1])
    /\ \E p \in DOMAIN xlsx.values : xlsx.values[p] = <<>>
    /\ \E p \in DOMAIN xlsx.values : xlsx.values[p] = <<"x">>

\* C4 as stated: the table's columns are exactly the input language codes,
\* each once: the priority language first when it is among them, then the
\* others in ascending order; all in ascending order, with no column for
\* the priority language, when it is not among them.
C4_Columns ==
    After({"written", "read", "rebuilt", "done"})
        => /\ Range(xlsx.columns) = InputLangs
           /\ Len(xlsx.columns) = Cardinality(InputLangs)
           /\ \A i \in 1..Len(xlsx.columns) : \A j \in 1..Len(xlsx.columns) :
                 (i < j /\ xlsx.columns[i] # priority_lang)
                     => /\ xlsx.columns[j] # priority_lang
                        /\ StrLess(xlsx.columns[i], xlsx.columns[j])

\* Every leaf is a str whose stripped form is not empty, every segment name
\* is plain.
RECURSIVE TableDoc(_)
TableDoc(d) ==
    \A i \in 1..Len(d) :
        /\ PlainSeg(d[i][1])
        /\ IF d[i][2].t = "dict" THEN TableDoc(d[i][2].d)
           ELSE d[i][2].t = "str" /\ Strip(d[i][2].s) # <<>>

RECURSIVE NoEmptyLeaf(_)
NoEmptyLeaf(d) ==
    \A i \in 1..Len(d) :
        IF d[i][2].t = "dict" THEN NoEmptyLeaf(d[i][2].d)
        ELSE d[i][2] # StrNode(<<>>)

RECURSIVE NodeAt(_, _)
NodeAt(d, path) ==
    IF ~HasKey(d, path[1]) THEN [found |-> FALSE, node |-> DictNode(<<>>)]
    ELSE IF Len(path) = 1 THEN [found |-> TRUE, node |-> Get(d, path[1])]
    ELSE IF Get(d, path[1]).t # "dict" THEN [found |-> FALSE, node |-> DictNode(<<>>)]
    ELSE NodeAt(Get(d, path[1]).d, Tail(path))

\* Key k, which some language has, is missing for language lang.
MissingFor(lang, k) ==
    /\ k \in UnionOfKeys
    /\ HasKey(translations, lang)
    /\ ~HasKey(Get(translations, lang), k)

\* C5: a key missing for language L in the input is an empty cell of column L
\* in the table, is absent from the set extracted for L, and in the document
\* unflatten_dict returns for L no node lies on the key's path but those that
\* lead to a key L has.
C5_AbsencePreserved ==
    \A lang \in Langs : \A k \in UnionOfKeys :
        (script = "table" /\ MissingFor(lang, k)) =>
            /\ After({"written", "read", "rebuilt", "done"}) =>
                  /\ lang \in Range(xlsx.columns)
                  /\ CellAt(k, lang) = <<>>
            /\ After({"read", "rebuilt", "done"}) =>
                  /\ HasKey(extracted, lang)
                  /\ ~HasKey(Get(extracted, lang), k)
            /\ (After({"rebuilt", "done"}) /\ ~Get(rebuilt, lang).err) =>
                  LET parts == Split(k, Sep)
                  IN  \A n \in 1..Len(parts) :
                         NodeAt(Get(rebuilt, lang).d, SubSeq(parts, 1, n)).found =>
                            \E k2 \in Keys(Get(extracted, lang)) :
                               /\ Len(Split(k2, Sep)) >= n
                               /\ SubSeq(Split(k2, Sep), 1, n) = SubSeq(parts, 1, n)

\* A language lacks a key another language has, and has a key of its own
\* under the same first segment; its document has been rebuilt.
C5_Witness ==
    /\ After({"rebuilt"})
    /\ \E lang \in Langs : \E k \in UnionOfKeys :
          /\ MissingFor(lang, k)
          /\ Len(Split(k, Sep)) = 2
          /\ ~Get(rebuilt, lang).err
          /\ NodeAt(Get(rebuilt, lang).d, <<Split(k, Sep)[1]>>).found
          /\ ~NodeAt(Get(rebuilt, lang).d, Split(k, Sep)).found

\* ------------------------------------------------------------------- C8

\* xx-YY: two lower-case letters, a hyphen, two upper-case letters.
IsLangCode(s) ==
    /\ Len(s) = 5
    /\ \A j \in {1, 2} : \E i \in 40..65 : CodePoints[i] = s[j]
    /\ s[3] = "-"
    /\ \A j \in {4, 5} : \E i \in 14..39 : CodePoints[i] = s[j]

\* xx-YY.json
IsLangFileName(s) ==
    /\ Len(s) = 10
    /\ IsLangCode(SubSeq(s, 1, 5))
    /\ SubSeq(s, 6, 10) = <<".", "j", "s", "o", "n">>

\* The directory entries load_json_files has looked at.
Seen == {input_dir.files[i] : i \in 1..(idx - 1)}

\* The entries it has looked at that it has to load.
Wanted ==
    { f \in Seen : /\ IsLangFileName(f.name)
                   /\ valid_langs.given => SubSeq(f.name, 1, 5) \in valid_langs.langs
                   /\ f.err = "none" }

Mentions(name) == \E i \in 1..Len(stdout) : stdout[i].arg = name

OnlyWantedLoaded ==
    /\ Keys(translations) = {SubSeq(f.name, 1, 5) : f \in Wanted}
    /\ \A f \in Wanted : Get(translations, SubSeq(f.name, 1, 5)) = flatten_dict(f.data, <<>>)
    /\ (pc = "done" /\ input_dir.exists) => idx = Len(input_dir.files) + 1

Logged(msg, arg) == \E i \in 1..Len(stdout) : stdout[i] = [msg |-> msg, arg |-> arg]

\* C7 as stated: no document is written for a code that fails xx-YY, a
\* diagnostic is emitted for each such code, every code that matches is
\* processed (written unless its own write fails) whatever came before it,
\* and the run is never aborted by one language.
C7_NeverAborted ==
    script = "excel_to_json" =>
        /\ exc = "none"
        /\ pc # "crashed"
        /\ \A i \in 1..Len(translations) :
              LET lang_code == translations[i][1]
              IN  /\ ~IsLangCode(lang_code) => ~HasKey(json_out, lang_code)
                  /\ (pc = "done" /\ ~IsLangCode(lang_code)) =>
                        Logged("Skipping invalid language code", lang_code)
                  /\ (pc = "done" /\ IsLangCode(lang_code)) =>
                        \/ HasKey(json_out, lang_code)
                        \/ Logged("Failed to write", lang_code)

\* ------------------------------------------------------------------ C10

\* Entries p and q of f, p before q, one key's segments a proper prefix of
\* the other's.
Conflict(f, p, q) ==
    /\ p < q
    /\ f[p][2] # <<>> /\ f[q][2] # <<>>
    /\ \/ IsPrefix(Split(f[p][1], Sep), Split(f[q][1], Sep))
       \/ IsPrefix(Split(f[q][1], Sep), Split(f[p][1], Sep))

\* C10 as stated: in unflatten_dict, of two entries with one key a proper
\* prefix of the other, the later one overwrites the node in either order:
\* an earlier leaf at the shorter path becomes a mapping holding the longer
\* path, an earlier mapping becomes a leaf; no error is raised.
C10_LaterEntryOverwrites ==
    script = "excel_to_json" =>
        \A i \in 1..Len(translations) :
            LET f == translations[i][2]
                r == unflatten_dict(f)
            IN  \A p \in 1..Len(f) : \A q \in 1..Len(f) :
                   Conflict(f, p, q) =>
                      /\ ~r.err
                      /\ NodeAt(r.d, Split(f[q][1], Sep)) =
                            [found |-> TRUE, node |-> StrNode(f[q][2])]
                      /\ IsPrefix(Split(f[p][1], Sep), Split(f[q][1], Sep)) =>
                            NodeAt(r.d, Split(f[p][1], Sep)).node.t = "dict"

\* ------------------------------------------------------------------- C9

\* No language is loaded, or every loaded language's flattened set is empty.
ZeroTranslations == \A i \in 1..Len(translations) : translations[i][2] = <<>>

\* C9 as stated: in both mains, when the inputs yield zero translations
\* (no language loaded, or every loaded language's flattened set empty), the
\* run logs and ends without writing any output file.
C9_NothingWritten ==
    (pc = "done" /\ ZeroTranslations) =>
        /\ ~xlsx_written
        /\ json_out = <<>>
        /\ stdout # <<>>

====
